---- MODULE Spec2Model ----
(***************************************************************************)
(* A model of cue_splitter.py: the name sanitizer, the decision engine     *)
(* (should_process) and the orchestrator loop of main.                     *)
(*                                                                         *)
(* Text is modelled as sequences of Unicode code points, so that           *)
(* sanitize_name is computed character by character as the code does.      *)
(***************************************************************************)
EXTENDS Integers, Sequences, FiniteSets, TLC

(* ------------------------------------------------------------------ *)
(* Name sanitizer (cue_splitter.py lines 29-85, 136-162)               *)
(* ------------------------------------------------------------------ *)

\* The transliteration table; None entries are the empty sequence.
LATIN_MAP ==
  <<
    <<65>>, <<65>>, <<65>>, <<65>>, <<65>>, <<65>>, <<65,69>>, <<67>>,
    <<69>>, <<69>>, <<69>>, <<69>>, <<73>>, <<73>>, <<73>>, <<73>>,
    <<68,72>>, <<78>>, <<79>>, <<79>>, <<79>>, <<79>>, <<79>>, <<>>,
    <<79>>, <<85>>, <<85>>, <<85>>, <<85>>, <<89>>, <<116,104>>, <<115,115>>,
    <<97>>, <<97>>, <<97>>, <<97>>, <<97>>, <<97>>, <<97,101>>, <<99>>,
    <<101>>, <<101>>, <<101>>, <<101>>, <<105>>, <<105>>, <<105>>, <<105>>,
    <<100,104>>, <<110>>, <<111>>, <<111>>, <<111>>, <<111>>, <<111>>, <<>>,
    <<111>>, <<117>>, <<117>>, <<117>>, <<117>>, <<121>>, <<116,104>>, <<121>>,
    <<65>>, <<97>>, <<65>>, <<97>>, <<65>>, <<97>>, <<67>>, <<99>>,
    <<67>>, <<99>>, <<67>>, <<99>>, <<67>>, <<99>>, <<68>>, <<100>>,
    <<68>>, <<100>>, <<69>>, <<101>>, <<69>>, <<101>>, <<69>>, <<101>>,
    <<69>>, <<101>>, <<69>>, <<101>>, <<71>>, <<103>>, <<71>>, <<103>>,
    <<71>>, <<103>>, <<71>>, <<103>>, <<72>>, <<104>>, <<72>>, <<104>>,
    <<73>>, <<105>>, <<73>>, <<105>>, <<73>>, <<105>>, <<73>>, <<105>>,
    <<73>>, <<105>>, <<73,74>>, <<105,106>>, <<74>>, <<106>>, <<75>>, <<107>>,
    <<107>>, <<76>>, <<108>>, <<76>>, <<108>>, <<76>>, <<108>>, <<76>>,
    <<108>>, <<76>>, <<108>>, <<78>>, <<110>>, <<78>>, <<110>>, <<78>>,
    <<110>>, <<110>>, <<78>>, <<110>>, <<79>>, <<111>>, <<79>>, <<111>>,
    <<79>>, <<111>>, <<79,69>>, <<111,101>>, <<82>>, <<114>>, <<82>>, <<114>>,
    <<82>>, <<114>>, <<83>>, <<115>>, <<83>>, <<115>>, <<83>>, <<115>>,
    <<83>>, <<115>>, <<84>>, <<116>>, <<84>>, <<116>>, <<84>>, <<116>>,
    <<85>>, <<117>>, <<85>>, <<117>>, <<85>>, <<117>>, <<85>>, <<117>>,
    <<85>>, <<117>>, <<85>>, <<117>>, <<87>>, <<119>>, <<89>>, <<121>>,
    <<89>>, <<90>>, <<122>>, <<90>>, <<122>>, <<90>>, <<122>>, <<115>>
  >>

LATIN_MAP_BEGIN == 192

LATIN_MAP_END == LATIN_MAP_BEGIN + Len(LATIN_MAP)

\* str.isupper() / str.lower() on the characters the sanitizer emits.
IsUpper(ch) == ch \in 65..90

ToLower(ch) == IF IsUpper(ch) THEN ch + 32 ELSE ch

\* Variant: one range test "0" <= ch <= "z" for the three of line 146.
IsPassThrough_OneRange(ch) == (48 <= ch /\ ch <= 122) \/ ch = 32

\* Line 146: digits, space, ASCII letters pass through.
IsPassThrough(ch) ==
  \/ (48 <= ch /\ ch <= 57)
  \/ ch = 32
  \/ (65 <= ch /\ ch <= 90)
  \/ (97 <= ch /\ ch <= 122)

\* Lines 146-156: what one input character appends to result_chars.
Emit(ch) ==
  IF IsPassThrough(ch) THEN <<ch>>
  ELSE IF ch = 9 THEN <<32>>
  ELSE IF LATIN_MAP_BEGIN <= ch /\ ch < LATIN_MAP_END
       THEN LATIN_MAP[ch - LATIN_MAP_BEGIN + 1]
  ELSE <<>>

\* Lines 150-155: the character is a mapped one whose expansion has an
\* uppercase second letter, so the index of its last letter is remembered.
IsGuessed(ch) ==
  /\ ~IsPassThrough(ch)
  /\ ch # 9
  /\ LATIN_MAP_BEGIN <= ch /\ ch < LATIN_MAP_END
  /\ LET mapped == LATIN_MAP[ch - LATIN_MAP_BEGIN + 1]
     IN  Len(mapped) >= 2 /\ IsUpper(mapped[2])

\* Lines 141-156: the build pass.  Indexes are 1-based here: the code's
\* len(result_chars) - 1 is the position Len(chars) of the last character.
RECURSIVE BuildFrom(_, _, _, _)
BuildFrom(value, k, chars, guessed) ==
  IF k > Len(value) THEN [chars |-> chars, guessed |-> guessed]
  ELSE LET ch  == value[k]
           new == chars \o Emit(ch)
       IN  BuildFrom(value, k + 1, new,
                     IF IsGuessed(ch) THEN Append(guessed, Len(new)) ELSE guessed)

\* Variant: islower() for "not isupper()" in the patch loop.
ShouldLower_IsLower(chars, idx) ==
  idx # Len(chars) /\ chars[idx + 1] \in 97..122

\* Line 159: the test of the patch loop, against the current result_chars.
ShouldLower(chars, idx) ==
  idx # Len(chars) /\ ~IsUpper(chars[idx + 1])

\* Lines 158-160: the patch loop, in the order of guessed_indexes.
RECURSIVE PatchFrom(_, _, _)
PatchFrom(chars, guessed, j) ==
  IF j > Len(guessed) THEN chars
  ELSE LET idx == guessed[j]
       IN  PatchFrom(IF ShouldLower(chars, idx)
                       THEN [chars EXCEPT ![idx] = ToLower(chars[idx])]
                       ELSE chars,
                     guessed, j + 1)

\* "( )" and "Untitled" as code points (lines 138-139).
ParenSpaceParen == <<40, 32, 41>>

Untitled == <<85, 110, 116, 105, 116, 108, 101, 100>>

sanitize_name(value) ==
  IF value = ParenSpaceParen THEN Untitled
  ELSE LET b == BuildFrom(value, 1, <<>>, <<>>)
       IN  PatchFrom(b.chars, b.guessed, 1)

(* ------------------------------------------------------------------ *)
(* Bounds and input alphabets                                          *)
(* ------------------------------------------------------------------ *)

\* Longest input string given to sanitize_name.
MaxLen == 3

\* Most TRACK ... AUDIO lines in a cue sheet.
MaxTracks == 3

\* Most FILE lines in a cue sheet.
MaxFileLines == 2

\* Most audio files a release directory holds.
MaxFiles == 4

\* Most cue sheets under basedir.
MaxCues == 2

\* Sample code points: digits, space, tab, ASCII letters, punctuation,
\* the code points around both ends of the mapped range, the four
\* expansions with an uppercase second letter (AE, DH, IJ, OE), a lowercase
\* digraph, an unmapped entry, and a Cyrillic letter.
SampleChars ==
  { 48, 32, 9, 65, 90, 97, 122, 40, 41, 46, 95,
    191, 198, 208, 215, 223, 230, 306, 338, 383, 384, 1040 }

Strings(n) == UNION { [1..k -> SampleChars] : k \in 0..n }

\* Every entry of the table, with the code point before it and the one
\* after it, alone and followed by an uppercase letter, a lowercase letter
\* or a digit.
TableChars == (LATIN_MAP_BEGIN - 1)..LATIN_MAP_END

TableStrings ==
  { <<c>> : c \in TableChars } \cup { <<c, f>> : c \in TableChars, f \in {65, 97, 48} }

\* Optional values: None is the empty sequence, Some(x) holds x.
None == <<>>

Some(x) == <<x>>

\* Cue sheet paths under basedir: "a.cue", "a.CUE", "b.cue", "b.CUE".
DotCueLower == <<46, 99, 117, 101>>

DotCueUpper == <<46, 67, 85, 69>>

CuePaths == { <<s>> \o e : s \in {97, 98}, e \in {DotCueLower, DotCueUpper} }

\* Resolved paths a FILE line can name.
AudioPaths == {"album.flac", "other.wav"}

FileSeqs(n) == UNION { [1..k -> AudioPaths] : k \in 0..n }

\* Album-level PERFORMER / TITLE values: "A", "A." and "B".
Artists == { None, Some(<<65>>), Some(<<65, 46>>) }

Albums == { None, Some(<<66>>) }

\* What the parsers see of a cue sheet's text: the number of TRACK n AUDIO
\* lines, the resolved names of its FILE lines in order, and the first
\* PERFORMER and TITLE before the first TRACK line.  An unreadable cue sheet
\* parses as [tracks |-> 0, files |-> <<>>, artist |-> None, album |-> None].
CueSheets ==
  [tracks : 0..MaxTracks, files : FileSeqs(MaxFileLines),
   artist : Artists, album : Albums]

\* The cue sheets the orchestrator runs are drawn from: unreadable, one
\* track, two and three tracks of the same release (the artist differing
\* only in punctuation), repeated FILE lines without metadata, two FILE
\* lines, a missing audio file, and no FILE line.
SampleCueSheets ==
  { [tracks |-> 0, files |-> <<>>, artist |-> None, album |-> None],
    [tracks |-> 1, files |-> <<"album.flac">>, artist |-> Some(<<65>>), album |-> Some(<<66>>)],
    [tracks |-> 2, files |-> <<"album.flac">>, artist |-> Some(<<65>>), album |-> Some(<<66>>)],
    [tracks |-> MaxTracks, files |-> <<"album.flac">>, artist |-> Some(<<65, 46>>), album |-> Some(<<66>>)],
    [tracks |-> 2, files |-> <<"album.flac", "album.flac">>, artist |-> None, album |-> None],
    [tracks |-> 2, files |-> <<"album.flac", "other.wav">>, artist |-> Some(<<65>>), album |-> None],
    [tracks |-> 2, files |-> <<"other.wav">>, artist |-> None, album |-> Some(<<66>>)],
    [tracks |-> MaxTracks, files |-> <<>>, artist |-> Some(<<65>>), album |-> Some(<<66>>)] }

VARIABLES
  value, sanitized, sanPc,   \* the sanitizer's input, output and position
  toolPresent,               \* flacsplit is on PATH
  basedirKind,               \* "dir", "file" or "missing"
  caseInsensitive,           \* paths match and sort ignoring case (Windows)
  force, dryRun,             \* --force, --dry-run
  disk,                      \* cue sheet path -> parsed content
  audioOnDisk,               \* the audio paths that exist
  dirCount,                  \* release directory -> audio files directly in it
  run,                       \* 1 or 2: the invocation of main
  pc,                        \* position in main
  cues, globSplit,           \* the enumerated list; length of its *.cue part
  idx,                       \* 1-based position of the loop in cues
  decision,                  \* (should_proc, reason) of the current cue
  stats,                     \* processed / skipped / failed
  exitCode,                  \* None until main returns
  log,                       \* one record per handled entry of cues, this run
  exactSplit                 \* cue paths whose split in run 1 left exactly N files

sanVars == <<value, sanitized, sanPc>>

envVars == <<toolPresent, basedirKind, caseInsensitive, force, dryRun, disk, audioOnDisk>>

progVars == <<run, pc, cues, globSplit, idx, decision, stats, exitCode, log, exactSplit>>

vars == <<sanVars, envVars, dirCount, progVars>>

(* ------------------------------------------------------------------ *)
(* Cue parser and decision engine (lines 102-133, 165-256, 293-321)    *)
(* ------------------------------------------------------------------ *)

\* Lines 112-133: the FILE references, first-seen order, duplicates removed.
RECURSIVE DedupFrom(_, _, _)
DedupFrom(files, k, refs) ==
  IF k > Len(files) THEN refs
  ELSE DedupFrom(files, k + 1,
                 IF \E j \in 1..Len(refs) : refs[j] = files[k]
                   THEN refs
                   ELSE Append(refs, files[k]))

\* Variant: the scan stops at the first FILE line.
parse_cue_files_FirstOnly(cue) ==
  IF disk[cue].files = <<>> THEN <<>> ELSE <<disk[cue].files[1]>>

parse_cue_files(cue) == DedupFrom(disk[cue].files, 1, <<>>)

parse_cue_artist_album(cue) == <<disk[cue].artist, disk[cue].album>>

count_cue_tracks(cue) == disk[cue].tracks

\* Lines 212-223: a directory that does not exist holds 0 audio files.
count_audio_files(directory) == dirCount[directory]

\* Variant: the reference is returned without the existence test.
find_audio_file_NoExistsCheck(refs) ==
  IF refs # <<>> THEN Some(refs[1]) ELSE None

find_audio_file(refs) ==
  IF refs # <<>> /\ refs[1] \in audioOnDisk THEN Some(refs[1]) ELSE None

\* "no album" (lines 198, 247).
NoAlbum == <<110, 111, 32, 97, 108, 98, 117, 109>>

\* pathlib's "/" below outdir: an empty component adds nothing.
PathJoin(parts) == SelectSeq(parts, LAMBDA c : c # <<>>)

\* Lines 238-256.  A directory is the sequence of its components below
\* outdir.  The candidate tried at line 243 is the path line 248 returns, so
\* its existence does not change the result.  Cue sheets lie directly in
\* basedir, so the fallback outdir / rel_parent is outdir itself.
ReleasePath(artist, album) ==
  IF artist # None \/ album # None
    THEN LET artist_value == IF artist = None THEN <<>> ELSE artist[1]
             album_value  == IF album = None THEN <<>> ELSE album[1]
             sanitized_artist == sanitize_name(artist_value)
             sanitized_album  == IF album_value # <<>>
                                   THEN sanitize_name(album_value)
                                   ELSE NoAlbum
         IN  PathJoin(<<sanitized_artist, sanitized_album>>)
    ELSE <<>>

output_release_dir(cue) ==
  LET meta == parse_cue_artist_album(cue)
  IN  ReleasePath(meta[1], meta[2])

ReleaseDirs == { ReleasePath(a, b) : a \in Artists, b \in Albums }

\* Variant: "<=" for "==" in the idempotency test.
AlreadyProcessed_AtMost(existing_count, track_count) == existing_count <= track_count

\* Line 318: the idempotency test.
AlreadyProcessed(existing_count, track_count) == existing_count = track_count

\* A reason string: its text with the numbers formatted into it.
Reason(text, args) == [text |-> text, args |-> args]

\* Lines 298-321.
should_process(cue, out_dir, f) ==
  LET track_count == count_cue_tracks(cue)
      refs        == parse_cue_files(cue)
      existing_count == count_audio_files(out_dir)
  IN  IF track_count <= 1
        THEN <<FALSE, Reason("no tracks or only 1 track", <<>>)>>
      ELSE IF Len(refs) = 0
        THEN <<FALSE, Reason("no audio file referenced", <<>>)>>
      ELSE IF Len(refs) > 1
        THEN <<FALSE, Reason("multi-file CUE (already split)", <<>>)>>
      ELSE IF find_audio_file(refs) = None
        THEN <<FALSE, Reason("audio file not found", <<>>)>>
      ELSE IF ~f /\ AlreadyProcessed(existing_count, track_count)
        THEN <<FALSE, Reason("already processed (%/% tracks)",
                             <<existing_count, track_count>>)>>
      ELSE <<TRUE, Reason("% tracks", <<track_count>>)>>

(* ------------------------------------------------------------------ *)
(* Enumeration of the cue sheets (line 379)                            *)
(* ------------------------------------------------------------------ *)

Lower(s) == [i \in 1..Len(s) |-> ToLower(s[i])]

RECURSIVE SeqLess(_, _)
SeqLess(s, t) ==
  IF s = <<>> THEN t # <<>>
  ELSE IF t = <<>> THEN FALSE
  ELSE IF s[1] # t[1] THEN s[1] < t[1]
  ELSE SeqLess(Tail(s), Tail(t))

\* Path comparison: by code point, or ignoring case on a Windows flavour.
PathLess(p, q) ==
  IF caseInsensitive THEN SeqLess(Lower(p), Lower(q)) ELSE SeqLess(p, q)

\* Variant: the lists are sorted in descending order.
RECURSIVE sorted_Descending(_)
sorted_Descending(S) ==
  IF S = {} THEN <<>>
  ELSE LET m == CHOOSE x \in S : \A y \in S \ {x} : PathLess(y, x)
       IN  <<m>> \o sorted_Descending(S \ {m})

RECURSIVE sorted(_)
sorted(S) ==
  IF S = {} THEN <<>>
  ELSE LET m == CHOOSE x \in S : \A y \in S \ {x} : PathLess(x, y)
       IN  <<m>> \o sorted(S \ {m})

EndsWith(s, suffix) ==
  /\ Len(s) >= Len(suffix)
  /\ SubSeq(s, Len(s) - Len(suffix) + 1, Len(s)) = suffix

\* basedir.rglob("*" + ext)
rglob(ext) ==
  { p \in DOMAIN disk :
      IF caseInsensitive THEN EndsWith(Lower(p), Lower(ext)) ELSE EndsWith(p, ext) }

(* ------------------------------------------------------------------ *)
(* main (lines 324-436)                                                *)
(* ------------------------------------------------------------------ *)

NoDecision == <<FALSE, Reason("", <<>>)>>

ZeroStats == [processed |-> 0, skipped |-> 0, failed |-> 0]

\* Variant: failures are not counted.
Bump_DropFailed(s, field) ==
  IF field = "failed" THEN s ELSE [s EXCEPT ![field] = s[field] + 1]

Bump(s, field) == [s EXCEPT ![field] = s[field] + 1]

\* What the run printed and counted for one entry of cues; result is the
\* re-count of line 416, None when the code does not take it.
LogEntry(cue, outcome, reason, msg, result) ==
  [cue |-> cue, outcome |-> outcome, reason |-> reason, msg |-> msg,
   result |-> result]

\* Lines 366, 286-290: sys.exit(2) when flacsplit is not on PATH.
EnsureTools ==
  /\ pc = "ensure_tools"
  /\ IF ~toolPresent
       THEN exitCode' = Some(2) /\ pc' = "exit"
       ELSE exitCode' = exitCode /\ pc' = "validate"
  /\ UNCHANGED <<sanVars, envVars, dirCount, run, cues, globSplit, idx,
                 decision, stats, log, exactSplit>>

\* Lines 369-375.
ValidateBasedir ==
  /\ pc = "validate"
  /\ IF basedirKind = "missing"
       THEN exitCode' = Some(2) /\ pc' = "exit"
     ELSE IF basedirKind # "dir"
       THEN exitCode' = Some(2) /\ pc' = "exit"
     ELSE exitCode' = exitCode /\ pc' = "scan"
  /\ UNCHANGED <<sanVars, envVars, dirCount, run, cues, globSplit, idx,
                 decision, stats, log, exactSplit>>

\* Lines 377-388.
Scan ==
  /\ pc = "scan"
  /\ LET lower == sorted(rglob(DotCueLower))
         upper == sorted(rglob(DotCueUpper))
     IN  /\ cues' = lower \o upper
         /\ globSplit' = Len(lower)
  /\ IF cues' = <<>>
       THEN exitCode' = Some(0) /\ pc' = "exit"
       ELSE exitCode' = exitCode /\ pc' = "loop"
  /\ idx' = 1
  /\ stats' = ZeroStats
  /\ UNCHANGED <<sanVars, envVars, dirCount, run, decision, log, exactSplit>>

\* Lines 391-410: the release directory, the decision, and the SKIP branch.
Decide ==
  /\ pc = "loop"
  /\ idx <= Len(cues)
  /\ LET cue == cues[idx]
         out_release_dir == output_release_dir(cue)
         d == should_process(cue, out_release_dir, force)
     IN  /\ decision' = d
         /\ IF ~d[1]
              THEN /\ stats' = Bump(stats, "skipped")
                   /\ log' = Append(log, LogEntry(cue, "skipped", d[2], "none", None))
                   /\ idx' = idx + 1
                   /\ pc' = "loop"
              ELSE /\ pc' = "split"
                   /\ UNCHANGED <<stats, log, idx>>
  /\ UNCHANGED <<sanVars, envVars, dirCount, run, cues, globSplit, exitCode, exactSplit>>

\* Lines 259-283: what run_flacsplit does to the release directory and how
\* it ends.  flacsplit only creates files; a failure of mkdir is the failed
\* outcome with the directory unchanged.
FlacsplitOutcomes(out_release_dir) ==
  { [returncode |-> rc, files |-> n] :
      rc \in {0, 1}, n \in dirCount[out_release_dir]..MaxFiles }

\* Variant: "<=" for "<" in the verification.
VerifyMessage_AtMost(result_count, expected_count) ==
  IF result_count <= expected_count THEN "warning" ELSE "created"

\* Lines 418-421: the line printed after a successful split.
VerifyMessage(result_count, expected_count) ==
  IF result_count < expected_count THEN "warning" ELSE "created"

\* Lines 411-427: run_flacsplit, the verification and the counters.
Split ==
  /\ pc = "split"
  /\ LET cue == cues[idx]
         out_release_dir == output_release_dir(cue)
     IN  IF dryRun
           THEN /\ stats' = Bump(stats, "processed")
                /\ log' = Append(log, LogEntry(cue, "processed", decision[2], "dry run", None))
                /\ UNCHANGED <<dirCount, exactSplit>>
           ELSE \E o \in FlacsplitOutcomes(out_release_dir) :
                  /\ dirCount' = [dirCount EXCEPT ![out_release_dir] = o.files]
                  /\ IF o.returncode # 0
                       THEN /\ stats' = Bump(stats, "failed")
                            /\ log' = Append(log, LogEntry(cue, "failed", decision[2], "none", None))
                            /\ UNCHANGED exactSplit
                       ELSE LET result_count   == o.files
                                expected_count == count_cue_tracks(cue)
                            IN  /\ stats' = Bump(stats, "processed")
                                /\ log' = Append(log,
                                      LogEntry(cue, "processed", decision[2],
                                               VerifyMessage(result_count, expected_count),
                                               Some(result_count)))
                                /\ exactSplit' =
                                     IF run = 1 /\ result_count = expected_count
                                       THEN exactSplit \cup {cue}
                                       ELSE exactSplit
  /\ idx' = idx + 1
  /\ pc' = "loop"
  /\ UNCHANGED <<sanVars, envVars, run, cues, globSplit, decision, exitCode>>

\* Variant: a single failure does not set the exit code.
ExitStatus_OffByOne(s) == IF s.failed > 1 THEN 1 ELSE 0

\* Line 436.
ExitStatus(s) == IF s.failed > 0 THEN 1 ELSE 0

\* Lines 429-436.
Summary ==
  /\ pc = "loop"
  /\ idx > Len(cues)
  /\ exitCode' = Some(ExitStatus(stats))
  /\ pc' = "exit"
  /\ UNCHANGED <<sanVars, envVars, dirCount, run, cues, globSplit, idx,
                 decision, stats, log, exactSplit>>

\* The tool is invoked a second time on the same inputs.
SecondRun ==
  /\ pc = "exit"
  /\ run = 1
  /\ run' = 2
  /\ pc' = "ensure_tools"
  /\ cues' = <<>>
  /\ globSplit' = 0
  /\ idx' = 1
  /\ decision' = NoDecision
  /\ stats' = ZeroStats
  /\ exitCode' = None
  /\ log' = <<>>
  /\ UNCHANGED <<sanVars, envVars, dirCount, exactSplit>>

SanIdle ==
  /\ value = <<>>
  /\ sanitized = <<>>
  /\ sanPc = "idle"

ProgStart(p) ==
  /\ run = 1
  /\ pc = p
  /\ cues = <<>>
  /\ globSplit = 0
  /\ idx = 1
  /\ decision = NoDecision
  /\ stats = ZeroStats
  /\ exitCode = None
  /\ log = <<>>
  /\ exactSplit = {}

EqualIgnoringCase(p, q) == Lower(p) = Lower(q)

\* The cue sheets under basedir: at most MaxCues of them, none when basedir
\* is not a directory, no two names equal up to case when names ignore case.
Disks ==
  UNION { [P -> SampleCueSheets] :
            P \in { Q \in SUBSET CuePaths : Cardinality(Q) <= MaxCues } }

\* The release directories at the start.  A real run starts from an empty
\* outdir and reaches the other directory states by its own splits, in its
\* second invocation at the latest; a dry run writes nothing, so it may
\* start from an outdir in which the release directory of one of the cue
\* sheets already holds files.
InitialDirCounts(dry) ==
  { [d \in ReleaseDirs |-> 0] } \cup
  { [d \in ReleaseDirs |-> IF d = seeded THEN n ELSE 0] :
      seeded \in { output_release_dir(p) : p \in DOMAIN disk },
      n \in (IF dry THEN 1..MaxFiles ELSE {}) }

Init ==
  /\ SanIdle
  /\ toolPresent \in BOOLEAN
  /\ basedirKind \in {"dir", "file", "missing"}
  /\ caseInsensitive \in BOOLEAN
  /\ force \in BOOLEAN
  /\ dryRun \in BOOLEAN
  /\ disk \in Disks
  /\ basedirKind # "dir" => DOMAIN disk = {}
  /\ caseInsensitive =>
       \A p, q \in DOMAIN disk : EqualIgnoringCase(p, q) => p = q
  /\ audioOnDisk = {"album.flac"}
  /\ dirCount \in InitialDirCounts(dryRun)
  /\ ProgStart("ensure_tools")

Next ==
  \/ EnsureTools
  \/ ValidateBasedir
  \/ Scan
  \/ Decide
  \/ Split
  \/ Summary
  \/ SecondRun

Spec == Init /\ [][Next]_vars

(* ------------------------------------------------------------------ *)
(* should_process alone, over every cue sheet and directory state      *)
(* ------------------------------------------------------------------ *)

InitDecide ==
  /\ SanIdle
  /\ toolPresent = TRUE
  /\ basedirKind = "dir"
  /\ caseInsensitive = FALSE
  /\ force \in BOOLEAN
  /\ dryRun = FALSE
  /\ \E c \in CueSheets, n \in 0..MaxFiles :
       /\ disk = [p \in {<<97>> \o DotCueLower} |-> c]
       /\ dirCount = [d \in ReleaseDirs |->
                        IF d = ReleasePath(c.artist, c.album) THEN n ELSE 0]
  /\ audioOnDisk \in SUBSET AudioPaths
  /\ ProgStart("decide")

ShouldProcessCall ==
  /\ pc = "decide"
  /\ LET cue == <<97>> \o DotCueLower
     IN  decision' = should_process(cue, output_release_dir(cue), force)
  /\ pc' = "decided"
  /\ UNCHANGED <<sanVars, envVars, dirCount, run, cues, globSplit, idx,
                 stats, exitCode, log, exactSplit>>

NextDecide == ShouldProcessCall

SpecDecide == InitDecide /\ [][NextDecide]_vars

(* ------------------------------------------------------------------ *)
(* sanitize_name alone, over every sample string                       *)
(* ------------------------------------------------------------------ *)

InitSan ==
  /\ value \in Strings(MaxLen) \cup TableStrings
  /\ sanitized = <<>>
  /\ sanPc = "input"
  /\ toolPresent = TRUE
  /\ basedirKind = "dir"
  /\ caseInsensitive = FALSE
  /\ force = FALSE
  /\ dryRun = FALSE
  /\ disk = <<>>
  /\ audioOnDisk = {}
  /\ dirCount = [d \in ReleaseDirs |-> 0]
  /\ ProgStart("idle")

SanitizeCall ==
  /\ sanPc = "input"
  /\ sanitized' = sanitize_name(value)
  /\ sanPc' = "sanitized"
  /\ UNCHANGED <<value, envVars, dirCount, progVars>>

NextSan == SanitizeCall

SpecSan == InitSan /\ [][NextSan]_vars

(* ------------------------------------------------------------------ *)
(* Properties                                                          *)
(* ------------------------------------------------------------------ *)

\* The distinct resolved paths named by the FILE lines of a cue sheet.
DistinctRefs(cue) == { disk[cue].files[i] : i \in DOMAIN disk[cue].files }

\* More than one track marker, exactly one audio file, which exists.
Eligible(cue) ==
  /\ disk[cue].tracks > 1
  /\ Cardinality(DistinctRefs(cue)) = 1
  /\ DistinctRefs(cue) \subseteq audioOnDisk

Invoked(entry) == entry.outcome \in {"processed", "failed"}

\* C1: the splitter step is reached only for a cue sheet with more than one
\* track marker and exactly one referenced audio file that exists, with or
\* without --force and --dry-run; every entry that went through the splitter
\* is such a cue sheet.
C1_SplitterOnlyIfEligible ==
  /\ pc = "split" => Eligible(cues[idx])
  /\ \A k \in DOMAIN log : Invoked(log[k]) => Eligible(log[k].cue)

\* C1 witness: under --force an ineligible cue sheet was skipped and the
\* next one is at the splitter although its directory holds N files.
C1_Witness ==
  /\ pc = "split"
  /\ force
  /\ Len(log) >= 1
  /\ log[1].outcome = "skipped"
  /\ ~Eligible(log[1].cue)
  /\ dirCount[output_release_dir(cues[idx])] = disk[cues[idx]].tracks

TheCue == <<97>> \o DotCueLower

TargetCount == dirCount[ReleasePath(disk[TheCue].artist, disk[TheCue].album)]

\* C2: for an eligible cue sheet with N tracks, should_process accepts with
\* reason "N tracks" when force is set or fewer than N audio files are in
\* out_dir, and rejects with "already processed (N/N tracks)" when force is
\* not set and exactly N are.
C2_AcceptOrAlreadyProcessed ==
  (pc = "decided" /\ Eligible(TheCue)) =>
    LET N == disk[TheCue].tracks
    IN  /\ (force \/ TargetCount < N) =>
              decision = <<TRUE, Reason("% tracks", <<N>>)>>
        /\ (~force /\ TargetCount = N) =>
              decision = <<FALSE, Reason("already processed (%/% tracks)", <<N, N>>)>>

\* C2 witness: an eligible cue sheet whose directory holds some but fewer
\* than N files was accepted without --force.
C2_Witness ==
  /\ pc = "decided"
  /\ Eligible(TheCue)
  /\ ~force
  /\ TargetCount > 0
  /\ TargetCount < disk[TheCue].tracks
  /\ decision[1]

MultiFileReason == Reason("multi-file CUE (already split)", <<>>)

\* C3 as stated: a cue sheet with two distinct FILE references is rejected
\* with the multi-file reason for every track count, directory state and
\* value of force.
C3_Original ==
  (pc = "decided" /\ Cardinality(DistinctRefs(TheCue)) = 2) =>
    decision = <<FALSE, MultiFileReason>>

\* C3 amended: a cue sheet with two distinct FILE references is always
\* rejected; the reason is the multi-file one when it has more than one
\* track marker and "no tracks or only 1 track" otherwise.
C3_MultiFileRejected ==
  (pc = "decided" /\ Cardinality(DistinctRefs(TheCue)) = 2) =>
    /\ ~decision[1]
    /\ disk[TheCue].tracks > 1 => decision[2] = MultiFileReason
    /\ disk[TheCue].tracks <= 1 =>
         decision[2] = Reason("no tracks or only 1 track", <<>>)

\* C3 witness: two distinct FILE references, both on disk, several tracks,
\* --force, rejected as multi-file.
C3_Witness ==
  /\ pc = "decided"
  /\ Cardinality(DistinctRefs(TheCue)) = 2
  /\ DistinctRefs(TheCue) \subseteq audioOnDisk
  /\ disk[TheCue].tracks > 1
  /\ force
  /\ decision = <<FALSE, MultiFileReason>>

\* C4: a cue sheet whose split in the first run (without --force) succeeded
\* and left exactly N audio files in its release directory is not sent to
\* the splitter in the second run and is skipped as already processed.
C4_Idempotent ==
  (run = 2 /\ ~force) =>
    /\ pc = "split" => cues[idx] \notin exactSplit
    /\ \A k \in DOMAIN log :
         log[k].cue \in exactSplit =>
           /\ log[k].outcome = "skipped"
           /\ log[k].reason.text = "already processed (%/% tracks)"

FailedEntries == { k \in DOMAIN log : log[k].outcome = "failed" }

ConfigError == ~toolPresent \/ basedirKind # "dir"

\* C5: main exits with 2 on a missing tool or a missing or non-directory
\* basedir, having examined and split nothing; otherwise with 1 exactly when
\* some cue sheet failed, and with 0 in every other case.
C5_ExitCode ==
  pc = "exit" =>
    IF ConfigError
      THEN /\ exitCode = Some(2)
           /\ log = <<>>
           /\ cues = <<>>
           /\ decision = NoDecision
      ELSE /\ FailedEntries # {} => exitCode = Some(1)
           /\ FailedEntries = {} => exitCode = Some(0)

\* C5 witness: a run that processed one cue sheet, failed another and
\* returned 1.
C5_Witness ==
  /\ pc = "exit"
  /\ exitCode = Some(1)
  /\ \E k \in DOMAIN log : log[k].outcome = "processed"
  /\ \E k \in DOMAIN log : log[k].outcome = "failed"

CountOf(outcome) == Cardinality({ k \in DOMAIN log : log[k].outcome = outcome })

\* C6: every enumerated entry is handled exactly once, in one of processed,
\* skipped or failed; a splitter failure is one failure and the loop goes
\* on, so at the summary the three counters add up to the number of
\* enumerated cue sheets.
C6_EachCueOnce ==
  /\ \A k \in DOMAIN log : k <= Len(cues) /\ log[k].cue = cues[k]
  /\ stats.processed = CountOf("processed")
  /\ stats.skipped = CountOf("skipped")
  /\ stats.failed = CountOf("failed")
  /\ pc \in {"loop", "split"} => Len(log) = idx - 1
  /\ (pc = "exit" /\ ~ConfigError) =>
       /\ Len(log) = Len(cues)
       /\ stats.processed + stats.skipped + stats.failed = Len(cues)

\* C6 witness: the first cue sheet failed in the splitter, the second was
\* processed, and the summary was reached.
C6_Witness ==
  /\ pc = "exit"
  /\ Len(log) = 2
  /\ log[1].outcome = "failed"
  /\ log[2].outcome = "processed"
  /\ stats = [processed |-> 1, skipped |-> 0, failed |-> 1]

SafeChars == (48..57) \cup {32} \cup (65..90) \cup (97..122)

\* C7: every character sanitize_name returns is an ASCII letter, a digit or
\* a space, and an input made of such characters only is returned unchanged.
C7_SanitizedIsSafe ==
  sanPc = "sanitized" =>
    /\ \A i \in DOMAIN sanitized : sanitized[i] \in SafeChars
    /\ (\A i \in DOMAIN value : value[i] \in SafeChars) => sanitized = value

\* C7 witness: an input with a character outside the safe set and one
\* inside it, sanitized to a non-empty string different from the input.
C7_Witness ==
  /\ sanPc = "sanitized"
  /\ \E i \in DOMAIN value : value[i] \notin SafeChars /\ Emit(value[i]) = <<>>
  /\ \E i \in DOMAIN value : value[i] \in SafeChars
  /\ sanitized # <<>>
  /\ sanitized # value

\* C8 as stated: after a successful real split, whenever the re-count
\* differs from the track count, in either direction, a warning is printed.
C8_Original ==
  \A k \in DOMAIN log :
    (log[k].result # None /\ log[k].result[1] # disk[log[k].cue].tracks) =>
      log[k].msg = "warning"

\* C8 amended: after a successful real split the re-count is compared to
\* the track count; fewer files than tracks prints the warning, as many or
\* more prints the created line, and the cue sheet counts as processed.
C8_WarnOnlyWhenFewer ==
  /\ \A k \in DOMAIN log :
       log[k].result # None =>
         /\ log[k].outcome = "processed"
         /\ log[k].result[1] < disk[log[k].cue].tracks => log[k].msg = "warning"
         /\ log[k].result[1] >= disk[log[k].cue].tracks => log[k].msg = "created"
  /\ stats.processed = CountOf("processed")

\* C8 witness: a split that left more files than tracks printed the created
\* line, and one that left fewer printed the warning; both were processed.
C8_Witness ==
  /\ Len(log) = 2
  /\ log[1].result # None
  /\ log[1].result[1] > disk[log[1].cue].tracks
  /\ log[1].msg = "created"
  /\ log[2].result # None
  /\ log[2].result[1] < disk[log[2].cue].tracks
  /\ log[2].msg = "warning"
  /\ stats.processed = 2

\* The 1-based position in the output of the last letter emitted for input
\* position k.
RECURSIVE EmittedUpTo(_, _)
EmittedUpTo(v, k) == IF k = 0 THEN 0 ELSE EmittedUpTo(v, k - 1) + Len(Emit(v[k]))

Reverse(s) == [i \in 1..Len(s) |-> s[Len(s) + 1 - i]]

\* C9: the second letter of each expansion AE, DH, IJ, OE is lowercase in
\* the result exactly when the character after it in the result is not
\* uppercase, is unchanged when nothing follows it, and patching the
\* expansions in the opposite order gives the same result.
C9_SecondLetterCase ==
  sanPc = "sanitized" =>
    /\ \A k \in DOMAIN value :
         IsGuessed(value[k]) =>
           LET pos    == EmittedUpTo(value, k)
               second == Emit(value[k])[2]
           IN  IF pos = Len(sanitized)
                 THEN sanitized[pos] = second
                 ELSE IF IsUpper(sanitized[pos + 1])
                        THEN sanitized[pos] = second
                        ELSE sanitized[pos] = second + 32
    /\ value # ParenSpaceParen =>
         LET b == BuildFrom(value, 1, <<>>, <<>>)
         IN  PatchFrom(b.chars, Reverse(b.guessed), 1) = sanitized

\* C9 witness: two expansions in a row followed by a lowercase letter: the
\* first keeps its uppercase second letter, the second loses it.
C9_Witness ==
  /\ sanPc = "sanitized"
  /\ Len(value) = 3
  /\ IsGuessed(value[1])
  /\ IsGuessed(value[2])
  /\ IsUpper(sanitized[2])
  /\ ~IsUpper(sanitized[4])
  /\ sanitized[5] \in 97..122

Started(k) == k <= Len(log) \/ (pc = "split" /\ idx = k)

Handled(j) == j <= Len(log) /\ log[j].cue = cues[j]

\* C10 as stated: of any two enumerated cue sheets, the one whose path
\* sorts first is fully handled before the other is started, whatever the
\* case of their extensions.
C10_Original ==
  \A j, k \in DOMAIN cues :
    (Started(k) /\ PathLess(cues[j], cues[k])) => Handled(j)

SamePattern(j, k) == (j <= globSplit) = (k <= globSplit)

\* C10 amended: the entries are handled one at a time in the order of the
\* list sorted(*.cue) + sorted(*.CUE): of two entries matched by the same
\* pattern the one that sorts first is fully handled before the other is
\* started, and every *.cue entry before any *.CUE entry.
C10_EnumerationOrder ==
  /\ \A j, k \in DOMAIN cues :
       (Started(k) /\ ~Handled(j) /\ SamePattern(j, k)) => ~PathLess(cues[j], cues[k])
  /\ \A j, k \in DOMAIN cues :
       (j <= globSplit /\ globSplit < k /\ Started(k)) => Handled(j)
  /\ \A k \in DOMAIN log : Handled(k)
  /\ pc = "split" => Len(log) = idx - 1

\* C10 witness: a *.cue entry was handled before a *.CUE entry whose path
\* sorts first, and the second one is now at the splitter.
C10_Witness ==
  /\ pc = "split"
  /\ idx = 2
  /\ globSplit = 1
  /\ PathLess(cues[2], cues[1])
  /\ Handled(1)
  /\ Invoked(log[1])

====
